---- MODULE Spec2Model ----
(***************************************************************************)
(* Model of scripts/analyze-session.py: the two-pass analysis of one       *)
(* session JSONL file (analyze_session), the two aggregations              *)
(* (print_summary, export_snapshot) and the driver (main).                 *)
(***************************************************************************)
EXTENDS Integers, Sequences, FiniteSets, TLC

VARIABLES
    fs,          \* the input files: path -> [exists, lines]
    args,        \* the parsed command line of main
    mpc,         \* position of main
    files_to_analyze, \* main: the paths the selection step resolved
    k,           \* main: index of the loop over files_to_analyze
    all_stats,   \* main / client: the list of Session Statistics
    exit_status, \* <<>> while running, then <<the exit status of the process>>
    stdout,      \* what main printed, one tag per report
    apc,         \* position of analyze_session
    lines,       \* analyze_session: the lines read from the file
    i,           \* analyze_session: index of the loop over lines
    stats,       \* analyze_session: the statistics being built
    tool_names,  \* analyze_session: the invocation index, id -> tool name
    out,         \* the snapshot log: [exists, lines]
    clock,       \* wall clock read by export_snapshot
    totals,      \* print_summary: its totals (<<>> before any call)
    snapshot,    \* export_snapshot: the snapshot of the last call (<<>> before)
    call         \* export_snapshot: the arguments and prior file of the last call

vars == <<fs, args, mpc, files_to_analyze, k, all_stats, exit_status, stdout,
          apc, lines, i, stats, tool_names, out, clock, totals, snapshot, call>>

mainVars == <<args, mpc, files_to_analyze, k, exit_status, stdout>>
analyzeVars == <<apc, lines, i, stats, tool_names>>
exportVars == <<out, clock, snapshot, call>>

-----------------------------------------------------------------------------
(* Bounds of the model. *)

\* longest file handed to analyze_session on its own
MaxLines == 3
\* longest explicit file list on main's command line
MaxArgs == 2
\* number of export_snapshot calls of one client
MaxExports == 2

-----------------------------------------------------------------------------
(* Python values. *)

\* Python's None
None == "<None>"
\* a key that a JSON object does not carry
Absent == "<absent>"
\* a path at which no file exists, and a file holding the lines ls
NoFile == [exists |-> FALSE, lines |-> <<>>]
File(ls) == [exists |-> TRUE, lines |-> ls]

\* truth value of a Python string-or-None (None and '' are falsy);
\* obj.get(key) on an absent key gives None
Truthy(x) == x \notin {None, Absent, ""}

EmptyMap == [x \in {} |-> 0]

\* d.get(key, dflt)
Get(d, key, dflt) == IF key \in DOMAIN d THEN d[key] ELSE dflt

\* d[key] = v
Put(d, key, v) == [x \in DOMAIN d \cup {key} |-> IF x = key THEN v ELSE d[x]]

\* defaultdict(int): d[key] += n
AddInt(d, key, n) == Put(d, key, Get(d, key, 0) + n)

RECURSIVE SumSeq(_)
SumSeq(s) == IF s = <<>> THEN 0 ELSE Head(s) + SumSeq(Tail(s))

RECURSIVE SumOver(_, _)
\* sum of f[x] over the set S
SumOver(f, S) ==
    IF S = {} THEN 0
    ELSE LET x == CHOOSE y \in S : TRUE IN f[x] + SumOver(f, S \ {x})

-----------------------------------------------------------------------------
(* JSON lines of a session file. *)

\* content payload of a tool_result block
NoContent == [kind |-> "absent", len |-> 0, parts |-> <<>>]
Str(n) == [kind |-> "str", len |-> n, parts |-> <<>>]
List(parts) == [kind |-> "list", len |-> 0, parts |-> parts]
Other(n) == [kind |-> "other", len |-> n, parts |-> <<>>]

\* content blocks; `id` is the key 'id' of tool_use, 'tool_use_id' of tool_result
TU(name, id) == [dict |-> TRUE, type |-> "tool_use", name |-> name, id |-> id,
                 content |-> NoContent]
TR(id, payload) == [dict |-> TRUE, type |-> "tool_result", name |-> Absent,
                    id |-> id, content |-> payload]
TXT == [dict |-> TRUE, type |-> "text", name |-> Absent, id |-> Absent,
        content |-> NoContent]
RAW == [dict |-> FALSE, type |-> Absent, name |-> Absent, id |-> Absent,
        content |-> NoContent]

\* the 'content' of a message: absent, a string, or a list of blocks
CNone == [kind |-> "absent", blocks |-> <<>>]
CStr == [kind |-> "str", blocks |-> <<>>]
CList(blocks) == [kind |-> "list", blocks |-> blocks]

Msg(model, usage, content) == [model |-> model, usage |-> usage, content |-> content]

\* a line that decodes to a JSON object; ts and msg are <<>> when the key is absent
Obj(type, sid, ts, msg) ==
    [kind |-> "obj", type |-> type, sid |-> sid, ts |-> ts, msg |-> msg]
\* a line json.loads rejects (JSONDecodeError): invalid, empty or truncated text
Invalid == [kind |-> "invalid", type |-> Absent, sid |-> Absent, ts |-> <<>>, msg |-> <<>>]
\* a line json.loads accepts but that is no object: a number, string, null, array
NonObj == [kind |-> "nonobj", type |-> Absent, sid |-> Absent, ts |-> <<>>, msg |-> <<>>]

UsageFull == [input_tokens |-> 2, output_tokens |-> 1,
              cache_read_input_tokens |-> 3, cache_creation_input_tokens |-> 1]
UsageInput == [input_tokens |-> 1]
UsageNegative == [input_tokens |-> 1, output_tokens |-> -1]

\* the lines files are made of
LinePool == <<
    Invalid,
    NonObj,
    Obj("assistant", "s1", <<2>>,
        <<Msg("m1", UsageFull, CList(<<TU("Read", "t1"), TXT, TR("t1", Str(9))>>))>>),
    Obj("assistant", "", <<>>,
        <<Msg(Absent, UsageInput, CList(<<TU("Grep", "t1"), TU(Absent, Absent)>>))>>),
    Obj("assistant", "s2", <<1>>,
        <<Msg("m2", EmptyMap, CList(<<TU("Bash", "")>>))>>),
    Obj("user", "s2", <<3>>,
        <<Msg(Absent, EmptyMap, CList(<<TR("t1", Str(5)), TR("t2", List(<<2, 3>>))>>))>>),
    Obj("user", Absent, <<>>,
        <<Msg(Absent, EmptyMap,
              CList(<<TR("", Other(4)), TR(Absent, NoContent), RAW, TU("Read", "t2")>>))>>),
    Obj("user", Absent, <<1>>, <<Msg(Absent, EmptyMap, CStr)>>),
    Obj("user", "s1", <<>>, <<>>),
    Obj("system", Absent, <<3>>, <<>>),
    Obj("summary", "s2", <<>>, <<Msg("m1", UsageFull, CNone)>>),
    Obj("assistant", Absent, <<>>, <<Msg("m1", UsageNegative, CNone)>>),
    Obj("assistant", Absent, <<>>, <<>>)
>>

LineIds == 1..Len(LinePool)

\* sequences over S of length at most n
SeqUpTo(S, n) == UNION {[1..m -> S] : m \in 0..n}

\* the files analyze_session is run on alone
Files == SeqUpTo(LineIds, MaxLines)

\* the session files of the file system; ThePath is the one analysed alone
Paths == {"p1", "p2"}
ThePath == "p1"

-----------------------------------------------------------------------------
(* analyze_session: the statistics and the two passes. *)

MessageTypes == {"user", "assistant", "system"}
TokenKeys == {"input", "output", "cache_read", "cache_creation"}

\* the stats dict analyze_session starts from
InitStats(path) ==
    [session_id |-> None,
     file |-> path,
     messages |-> [user |-> 0, assistant |-> 0, system |-> 0],
     tool_calls |-> EmptyMap,
     tool_result_sizes |-> EmptyMap,
     tokens |-> [input |-> 0, output |-> 0, cache_read |-> 0, cache_creation |-> 0],
     models |-> EmptyMap,
     timestamps |-> [first |-> <<>>, last |-> <<>>]]

\* a session id adopted from every record that carries one (last seen wins)
TrackSessionLastWins(st, obj) ==
    IF obj.sid # Absent THEN [st EXCEPT !.session_id = obj.sid] ELSE st

\* Track session ID: adopt obj['sessionId'] while the known one is falsy
TrackSession(st, obj) ==
    IF obj.sid # Absent /\ ~Truthy(st.session_id)
    THEN [st EXCEPT !.session_id = obj.sid]
    ELSE st

\* Track timestamps: running minimum and maximum
TrackTimestamps(st, obj) ==
    IF obj.ts = <<>> THEN st
    ELSE LET ts == obj.ts[1]
             t == st.timestamps
             first == IF t.first = <<>> \/ ts < t.first[1] THEN <<ts>> ELSE t.first
             last == IF t.last = <<>> \/ ts > t.last[1] THEN <<ts>> ELSE t.last
         IN [st EXCEPT !.timestamps = [first |-> first, last |-> last]]

\* Count message types
CountMessage(st, obj) ==
    IF obj.type \in MessageTypes
    THEN [st EXCEPT !.messages[obj.type] = @ + 1]
    ELSE st

\* token usage whose input total leaves out the tokens read from the cache
TokenUsageNetOfCache(st, usage) ==
    [st EXCEPT !.tokens =
        [input |-> @.input + Get(usage, "input_tokens", 0)
                      - Get(usage, "cache_read_input_tokens", 0),
         output |-> @.output + Get(usage, "output_tokens", 0),
         cache_read |-> @.cache_read + Get(usage, "cache_read_input_tokens", 0),
         cache_creation |-> @.cache_creation + Get(usage, "cache_creation_input_tokens", 0)]]

\* Token usage: the four counters of the session totals
TokenUsage(st, usage) ==
    [st EXCEPT !.tokens =
        [input |-> @.input + Get(usage, "input_tokens", 0),
         output |-> @.output + Get(usage, "output_tokens", 0),
         cache_read |-> @.cache_read + Get(usage, "cache_read_input_tokens", 0),
         cache_creation |-> @.cache_creation + Get(usage, "cache_creation_input_tokens", 0)]]

\* model tracking whose output line adds input_tokens again
ModelTrackingInputTwice(st, msg) ==
    LET model == IF msg.model = Absent THEN "unknown" ELSE msg.model
        old == Get(st.models, model, [input |-> 0, output |-> 0, calls |-> 0])
    IN [st EXCEPT !.models =
           Put(@, model,
               [input |-> old.input + Get(msg.usage, "input_tokens", 0),
                output |-> old.output + Get(msg.usage, "input_tokens", 0),
                calls |-> old.calls + 1])]

\* Model tracking: input, output and calls of msg.get('model', 'unknown')
ModelTracking(st, msg) ==
    LET model == IF msg.model = Absent THEN "unknown" ELSE msg.model
        old == Get(st.models, model, [input |-> 0, output |-> 0, calls |-> 0])
    IN [st EXCEPT !.models =
           Put(@, model,
               [input |-> old.input + Get(msg.usage, "input_tokens", 0),
                output |-> old.output + Get(msg.usage, "output_tokens", 0),
                calls |-> old.calls + 1])]

\* an index that keeps the first announcement of an identifier (setdefault)
IndexToolFirstWins(names, tool_id, tool_name) ==
    IF Truthy(tool_id) /\ tool_id \notin DOMAIN names
    THEN Put(names, tool_id, tool_name) ELSE names

\* if tool_id: tool_names[tool_id] = tool_name
IndexTool(names, tool_id, tool_name) ==
    IF Truthy(tool_id) THEN Put(names, tool_id, tool_name) ELSE names

\* one content block of an assistant message; acc = [stats, tool_names]
ToolUse(acc, block) ==
    IF block.dict /\ block.type = "tool_use"
    THEN LET tool_name == IF block.name = Absent THEN "unknown" ELSE block.name
         IN [stats |-> [acc.stats EXCEPT !.tool_calls = AddInt(@, tool_name, 1)],
             tool_names |-> IndexTool(acc.tool_names, block.id, tool_name)]
    ELSE acc

RECURSIVE ToolCalls(_, _)
\* for block in msg.get('content', []), in order
ToolCalls(acc, blocks) ==
    IF blocks = <<>> THEN acc
    ELSE ToolCalls(ToolUse(acc, Head(blocks)), Tail(blocks))

\* the body of the first loop for a decoded object
Pass1Record(acc, obj) ==
    LET s1 == CountMessage(TrackTimestamps(TrackSession(acc.stats, obj), obj), obj)
    IN IF obj.type = "assistant" /\ obj.msg # <<>>
       THEN LET msg == obj.msg[1]
                s2 == ModelTracking(TokenUsage(s1, msg.usage), msg)
            IN ToolCalls([stats |-> s2, tool_names |-> acc.tool_names],
                         msg.content.blocks)
       ELSE [stats |-> s1, tool_names |-> acc.tool_names]

\* Calculate content size of block.get('content', '')
ContentSize(content) ==
    IF content.kind \in {"str", "absent"} THEN content.len
    ELSE IF content.kind = "list" THEN SumSeq(content.parts)
    ELSE content.len

\* a lookup without the 'unknown' default: tool_names.get(tool_id)
ResolveToolNoDefault(names, tool_id) == Get(names, tool_id, None)

\* tool_names.get(tool_id, 'unknown')
ResolveTool(names, tool_id) == Get(names, tool_id, "unknown")

\* one content block of a user message
ToolResult(acc, block) ==
    IF block.dict /\ block.type = "tool_result"
    THEN LET tool_name == ResolveTool(acc.tool_names, block.id)
             size == ContentSize(block.content)
             old == Get(acc.stats.tool_result_sizes, tool_name,
                        [count |-> 0, total_chars |-> 0])
         IN [acc EXCEPT !.stats.tool_result_sizes =
                Put(@, tool_name, [count |-> old.count + 1,
                                   total_chars |-> old.total_chars + size])]
    ELSE acc

RECURSIVE ToolResults(_, _)
\* for block in msg['content'], in order
ToolResults(acc, blocks) ==
    IF blocks = <<>> THEN acc
    ELSE ToolResults(ToolResult(acc, Head(blocks)), Tail(blocks))

\* the body of the second loop for a decoded object
Pass2Record(acc, obj) ==
    IF obj.type = "user" /\ obj.msg # <<>> /\ obj.msg[1].content.kind = "list"
    THEN ToolResults(acc, obj.msg[1].content.blocks)
    ELSE acc

\* a start that keeps the index of the previous call (a module-level tool_names)
AnalyzeStartSharedIndex(path) ==
    /\ stats' = InitStats(path)
    /\ lines' = fs[path].lines
    /\ tool_names' = tool_names
    /\ i' = 1
    /\ apc' = "pass1"

\* stats dict, file read, empty index: the start of analyze_session
AnalyzeStart(path) ==
    /\ stats' = InitStats(path)
    /\ lines' = fs[path].lines
    /\ tool_names' = EmptyMap
    /\ i' = 1
    /\ apc' = "pass1"

\* one iteration of the first loop
Pass1Step ==
    /\ apc = "pass1"
    /\ i <= Len(lines)
    /\ LET line == LinePool[lines[i]] IN
         IF line.kind = "invalid"
         THEN i' = i + 1 /\ UNCHANGED <<apc, stats, tool_names>>
         ELSE IF line.kind = "nonobj"
         THEN apc' = "raised" /\ UNCHANGED <<i, stats, tool_names>>
         ELSE LET acc == Pass1Record([stats |-> stats, tool_names |-> tool_names], line)
              IN /\ stats' = acc.stats
                 /\ tool_names' = acc.tool_names
                 /\ i' = i + 1
                 /\ UNCHANGED apc
    /\ UNCHANGED lines
    /\ UNCHANGED <<fs, all_stats, totals>>
    /\ UNCHANGED mainVars
    /\ UNCHANGED exportVars

\* the first loop is exhausted, the second starts
Pass1Done ==
    /\ apc = "pass1"
    /\ i > Len(lines)
    /\ apc' = "pass2"
    /\ i' = 1
    /\ UNCHANGED <<lines, stats, tool_names>>
    /\ UNCHANGED <<fs, all_stats, totals>>
    /\ UNCHANGED mainVars
    /\ UNCHANGED exportVars

\* one iteration of the second loop
Pass2Step ==
    /\ apc = "pass2"
    /\ i <= Len(lines)
    /\ LET line == LinePool[lines[i]] IN
         IF line.kind = "invalid"
         THEN i' = i + 1 /\ UNCHANGED <<apc, stats>>
         ELSE IF line.kind = "nonobj"
         THEN apc' = "raised" /\ UNCHANGED <<i, stats>>
         ELSE /\ stats' = Pass2Record([stats |-> stats, tool_names |-> tool_names], line).stats
              /\ i' = i + 1
              /\ UNCHANGED apc
    /\ UNCHANGED <<lines, tool_names>>
    /\ UNCHANGED <<fs, all_stats, totals>>
    /\ UNCHANGED mainVars
    /\ UNCHANGED exportVars

\* the second loop is exhausted: defaultdicts become dicts, stats is returned
AnalyzeReturn ==
    /\ apc = "pass2"
    /\ i > Len(lines)
    /\ apc' = "returned"
    /\ UNCHANGED <<lines, i, stats, tool_names>>
    /\ UNCHANGED <<fs, all_stats, totals>>
    /\ UNCHANGED mainVars
    /\ UNCHANGED exportVars

\* analyze_session as a function of the file: both loops run to the end
RECURSIVE RunPass1(_, _)
RunPass1(acc, ls) ==
    IF ls = <<>> THEN acc
    ELSE LET line == LinePool[Head(ls)]
         IN RunPass1(IF line.kind = "obj" THEN Pass1Record(acc, line) ELSE acc, Tail(ls))

RECURSIVE RunPass2(_, _)
RunPass2(acc, ls) ==
    IF ls = <<>> THEN acc
    ELSE LET line == LinePool[Head(ls)]
         IN RunPass2(IF line.kind = "obj" THEN Pass2Record(acc, line) ELSE acc, Tail(ls))

\* the stats analyze_session returns for a file without non-object lines
Analyze(path, ls) ==
    RunPass2(RunPass1([stats |-> InitStats(path), tool_names |-> EmptyMap], ls), ls).stats

-----------------------------------------------------------------------------
(* The aggregations: print_summary and export_snapshot. *)

ReadTools == {"Read", "Glob", "Grep"}

\* for k, v in d.items(): t[k] += v, on a defaultdict(int) or a dict holding d's keys
AddCounts(t, d) ==
    [x \in DOMAIN t \cup DOMAIN d |-> Get(t, x, 0) + Get(d, x, 0)]

\* for k, v in d.items(): if k in t: t[k] += v
AddKnownCounts(t, d) ==
    [x \in DOMAIN t |-> t[x] + Get(d, x, 0)]

\* sizes whose total_chars line adds data['count']
AddSizesCountTwice(t, d) ==
    LET zero == [count |-> 0, total_chars |-> 0] IN
    [x \in DOMAIN t \cup DOMAIN d |->
        [count |-> Get(t, x, zero).count + Get(d, x, zero).count,
         total_chars |-> Get(t, x, zero).total_chars + Get(d, x, zero).count]]

\* for tool, data in d.items(): count and total_chars are summed under tool
AddSizes(t, d) ==
    LET zero == [count |-> 0, total_chars |-> 0] IN
    [x \in DOMAIN t \cup DOMAIN d |->
        [count |-> Get(t, x, zero).count + Get(d, x, zero).count,
         total_chars |-> Get(t, x, zero).total_chars + Get(d, x, zero).total_chars]]

\* the body of print_summary's loop over all_stats
SummaryAdd(t, st) ==
    [messages |-> AddCounts(t.messages, st.messages),
     tokens |-> AddCounts(t.tokens, st.tokens),
     tool_calls |-> AddCounts(t.tool_calls, st.tool_calls),
     tool_result_sizes |-> AddSizes(t.tool_result_sizes, st.tool_result_sizes)]

RECURSIVE SummaryFold(_, _)
SummaryFold(t, sts) ==
    IF sts = <<>> THEN t ELSE SummaryFold(SummaryAdd(t, Head(sts)), Tail(sts))

\* the totals print_summary aggregates
SummaryTotals(sts) ==
    SummaryFold([messages |-> [user |-> 0, assistant |-> 0, system |-> 0],
                 tokens |-> [input |-> 0, output |-> 0, cache_read |-> 0,
                             cache_creation |-> 0],
                 tool_calls |-> EmptyMap,
                 tool_result_sizes |-> EmptyMap], sts)

\* printing reads totals['tool_calls'][tool] of every read tool: the defaultdict
\* gains the key, with count 0, when it did not hold it
TouchReadTools(t) ==
    [t EXCEPT !.tool_calls = [x \in DOMAIN @ \cup ReadTools |-> Get(@, x, 0)]]

\* the body of export_snapshot's loop over all_stats
SnapshotAdd(t, st) ==
    [messages |-> AddKnownCounts(t.messages, st.messages),
     tokens |-> AddCounts(t.tokens, st.tokens),
     tool_calls |-> AddCounts(t.tool_calls, st.tool_calls),
     tool_result_sizes |-> AddSizes(t.tool_result_sizes, st.tool_result_sizes)]

RECURSIVE SnapshotFold(_, _)
SnapshotFold(t, sts) ==
    IF sts = <<>> THEN t ELSE SnapshotFold(SnapshotAdd(t, Head(sts)), Tail(sts))

\* the totals export_snapshot aggregates
SnapshotTotals(sts) ==
    SnapshotFold([messages |-> [user |-> 0, assistant |-> 0],
                  tokens |-> [input |-> 0, output |-> 0, cache_read |-> 0,
                              cache_creation |-> 0],
                  tool_calls |-> EmptyMap,
                  tool_result_sizes |-> EmptyMap], sts)

\* the snapshot record; 'note' is set only for a truthy note
MakeSnapshot(sts, now, grafema_mcp, note) ==
    LET t == SnapshotTotals(sts)
        calls == [x \in ReadTools |-> Get(t.tool_calls, x, 0)]
        chars == [x \in DOMAIN t.tool_result_sizes |-> t.tool_result_sizes[x].total_chars]
    IN [timestamp |-> now,
        grafema_mcp_enabled |-> grafema_mcp,
        sessions_count |-> Len(sts),
        messages |-> t.messages,
        tokens |-> t.tokens,
        tool_calls |-> t.tool_calls,
        tool_result_sizes |-> t.tool_result_sizes,
        summary |-> [read_search_calls |-> SumOver(calls, ReadTools),
                     read_search_chars |-> SumOver(chars, ReadTools \cap DOMAIN chars),
                     total_tool_result_chars |-> SumOver(chars, DOMAIN chars)],
        note |-> IF Truthy(note) THEN note ELSE Absent]

\* a mode that ignores append: always 'w'
OpenModeAlwaysWrite(append, exists) == "w"

\* mode = 'a' if append and output_path.exists() else 'w'
OpenMode(append, exists) == IF append /\ exists THEN "a" ELSE "w"

\* open(output_path, mode) and one write of a line
WriteLine(file, mode, line) ==
    IF mode = "a"
    THEN [exists |-> TRUE, lines |-> Append(file.lines, line)]
    ELSE [exists |-> TRUE, lines |-> <<line>>]

\* print_summary(sts)
PrintSummary(sts) ==
    /\ totals' = TouchReadTools(SummaryTotals(sts))
    /\ stdout' = Append(stdout, "summary")

\* export_snapshot(sts, path of out, append, grafema_mcp, note)
ExportSnapshot(sts, append, grafema_mcp, note) ==
    LET snap == MakeSnapshot(sts, clock, grafema_mcp, note) IN
    /\ out' = WriteLine(out, OpenMode(append, out.exists), snap)
    /\ snapshot' = snap
    /\ clock' = clock + 1
    /\ call' = [all_stats |-> sts, append |-> append, before |-> out]

-----------------------------------------------------------------------------
(* analyze_session on one file, and the aggregations of its result. *)

InitCaller ==
    /\ args = [grafema |-> FALSE, worktree |-> <<>>, files |-> <<>>, export |-> FALSE,
               json |-> FALSE, summary_only |-> FALSE, grafema_mcp |-> FALSE,
               note |-> None]
    /\ mpc = "idle"
    /\ files_to_analyze = <<>>
    /\ k = 1
    /\ all_stats = <<>>
    /\ exit_status = <<>>
    /\ stdout = <<>>
    /\ apc = "idle"
    /\ lines = <<>>
    /\ i = 1
    /\ stats = InitStats(ThePath)
    /\ tool_names = EmptyMap
    /\ clock = 1
    /\ totals = <<>>
    /\ snapshot = <<>>
    /\ call = <<>>

InitAnalyze ==
    /\ InitCaller
    /\ out = [exists |-> FALSE, lines |-> <<>>]
    /\ \E f \in Files : fs = [p \in Paths |-> IF p = ThePath THEN File(f) ELSE NoFile]

\* a caller runs analyze_session(ThePath)
AnalyzeCall ==
    /\ apc = "idle"
    /\ all_stats = <<>>
    /\ AnalyzeStart(ThePath)
    /\ UNCHANGED <<fs, all_stats, totals>>
    /\ UNCHANGED mainVars
    /\ UNCHANGED exportVars

\* the caller puts the returned stats in a list
Collect ==
    /\ apc = "returned"
    /\ all_stats' = Append(all_stats, stats)
    /\ apc' = "idle"
    /\ UNCHANGED <<fs, lines, i, stats, tool_names, totals>>
    /\ UNCHANGED mainVars
    /\ UNCHANGED exportVars

\* the caller aggregates the list with print_summary
SummaryCall ==
    /\ apc = "idle"
    /\ all_stats # <<>>
    /\ totals = <<>>
    /\ PrintSummary(all_stats)
    /\ UNCHANGED <<fs, args, mpc, files_to_analyze, k, all_stats, exit_status>>
    /\ UNCHANGED analyzeVars
    /\ UNCHANGED exportVars

\* the caller exports the list with export_snapshot's default arguments
ExportCall ==
    /\ apc = "idle"
    /\ all_stats # <<>>
    /\ snapshot = <<>>
    /\ ExportSnapshot(all_stats, TRUE, FALSE, None)
    /\ UNCHANGED <<fs, all_stats, totals>>
    /\ UNCHANGED mainVars
    /\ UNCHANGED analyzeVars

NextAnalyze ==
    \/ AnalyzeCall
    \/ Pass1Step
    \/ Pass1Done
    \/ Pass2Step
    \/ AnalyzeReturn
    \/ Collect
    \/ SummaryCall
    \/ ExportCall

SpecAnalyze == InitAnalyze /\ [][NextAnalyze]_vars

-----------------------------------------------------------------------------
(* main: selection of the files, the loop, the reports, the export. *)

\* the files main is run on
MainFiles == {<<>>, <<2>>, <<3>>, <<6>>}

\* --worktree arguments (<<>>: the option is not given)
WorktreeArgs == {<<>>, <<"1">>, <<"2", "1">>}

\* the worker a session file belongs to: p1 lies in the project directory
\* -Users-vadimr-grafema, p2 in -Users-vadimr-grafema-worker-1
WorkerOf == [p1 |-> None, p2 |-> "1"]

\* Paths in sorted order
SortedPaths == <<"p1", "p2">>

RECURSIVE Existing(_, _)
\* the paths of ps, in order, that satisfy keep and at which a file exists
Existing(ps, keep) ==
    IF ps = <<>> THEN <<>>
    ELSE IF fs[Head(ps)].exists /\ Head(ps) \in keep
         THEN <<Head(ps)>> \o Existing(Tail(ps), keep)
         ELSE Existing(Tail(ps), keep)

\* find_grafema_sessions: the session files of all grafema projects, or of one
\* worker's project, sorted
FindGrafemaSessions(worktree) ==
    IF worktree # None
    THEN Existing(SortedPaths, {p \in Paths : WorkerOf[p] = worktree})
    ELSE Existing(SortedPaths, Paths)

RECURSIVE WorktreeSessions(_)
\* for w in args.worktree: files_to_analyze.extend(find_grafema_sessions(w))
WorktreeSessions(ws) ==
    IF ws = <<>> THEN <<>>
    ELSE FindGrafemaSessions(Head(ws)) \o WorktreeSessions(Tail(ws))

\* Collect files based on arguments
SelectFiles(a) ==
    IF a.grafema THEN FindGrafemaSessions(None)
    ELSE IF a.worktree # <<>> THEN WorktreeSessions(a.worktree)
    ELSE a.files

InitMain ==
    /\ fs \in [Paths -> {File(f) : f \in MainFiles} \cup {NoFile}]
    /\ args \in [grafema : BOOLEAN, worktree : WorktreeArgs,
                 files : SeqUpTo(Paths, MaxArgs), export : BOOLEAN,
                 json : BOOLEAN, summary_only : BOOLEAN,
                 grafema_mcp : {FALSE}, note : {None}]
    /\ mpc = "select"
    /\ files_to_analyze = <<>>
    /\ k = 1
    /\ all_stats = <<>>
    /\ exit_status = <<>>
    /\ stdout = <<>>
    /\ apc = "idle"
    /\ lines = <<>>
    /\ i = 1
    /\ stats = InitStats(ThePath)
    /\ tool_names = EmptyMap
    /\ out = [exists |-> FALSE, lines |-> <<>>]
    /\ clock = 1
    /\ totals = <<>>
    /\ snapshot = <<>>
    /\ call = <<>>

\* the selection step; no file resolved: diagnostic and sys.exit(1)
Select ==
    /\ mpc = "select"
    /\ files_to_analyze' = SelectFiles(args)
    /\ IF SelectFiles(args) = <<>>
       THEN /\ stdout' = Append(stdout, "No files to analyze")
            /\ exit_status' = <<1>>
            /\ mpc' = "exited"
       ELSE /\ mpc' = "loop"
            /\ UNCHANGED <<stdout, exit_status>>
    /\ UNCHANGED <<fs, args, k, all_stats, totals>>
    /\ UNCHANGED analyzeVars
    /\ UNCHANGED exportVars

\* a path that does not exist is passed over
MainLoopSkip ==
    /\ mpc = "loop"
    /\ apc = "idle"
    /\ k <= Len(files_to_analyze)
    /\ ~fs[files_to_analyze[k]].exists
    /\ k' = k + 1
    /\ UNCHANGED <<fs, args, mpc, files_to_analyze, all_stats, exit_status, stdout, totals>>
    /\ UNCHANGED analyzeVars
    /\ UNCHANGED exportVars

\* stats = analyze_session(path), for a path that exists
MainLoopCall ==
    /\ mpc = "loop"
    /\ apc = "idle"
    /\ k <= Len(files_to_analyze)
    /\ fs[files_to_analyze[k]].exists
    /\ AnalyzeStart(files_to_analyze[k])
    /\ UNCHANGED <<fs, all_stats, totals>>
    /\ UNCHANGED mainVars
    /\ UNCHANGED exportVars

\* all_stats.append(stats), and print_stats unless --summary-only or --json
MainLoopCollect ==
    /\ mpc = "loop"
    /\ apc = "returned"
    /\ all_stats' = Append(all_stats, stats)
    /\ stdout' = IF ~args.summary_only /\ ~args.json
                 THEN Append(stdout, "stats") ELSE stdout
    /\ k' = k + 1
    /\ apc' = "idle"
    /\ UNCHANGED <<fs, args, mpc, files_to_analyze, exit_status, totals>>
    /\ UNCHANGED <<lines, i, stats, tool_names>>
    /\ UNCHANGED exportVars

\* an exception of analyze_session is caught nowhere: traceback, exit status 1
MainCrash ==
    /\ mpc = "loop"
    /\ apc = "raised"
    /\ exit_status' = <<1>>
    /\ mpc' = "exited"
    /\ UNCHANGED <<fs, args, files_to_analyze, k, all_stats, stdout, totals>>
    /\ UNCHANGED analyzeVars
    /\ UNCHANGED exportVars

\* after the loop: the JSON dump, or the summary of more than one session
MainReport ==
    /\ mpc = "loop"
    /\ apc = "idle"
    /\ k > Len(files_to_analyze)
    /\ IF args.json
       THEN stdout' = Append(stdout, "json") /\ UNCHANGED totals
       ELSE IF Len(all_stats) > 1
            THEN PrintSummary(all_stats)
            ELSE UNCHANGED <<stdout, totals>>
    /\ mpc' = "export"
    /\ UNCHANGED <<fs, args, files_to_analyze, k, all_stats, exit_status>>
    /\ UNCHANGED analyzeVars
    /\ UNCHANGED exportVars

\* Export snapshot if requested, then the process ends with status 0
MainExport ==
    /\ mpc = "export"
    /\ IF args.export /\ all_stats # <<>>
       THEN /\ ExportSnapshot(all_stats, TRUE, args.grafema_mcp, args.note)
            /\ stdout' = Append(stdout, "Exported snapshot")
       ELSE UNCHANGED <<out, clock, snapshot, call, stdout>>
    /\ exit_status' = <<0>>
    /\ mpc' = "exited"
    /\ UNCHANGED <<fs, args, files_to_analyze, k, all_stats, totals>>
    /\ UNCHANGED analyzeVars

Next ==
    \/ Select
    \/ MainLoopSkip
    \/ MainLoopCall
    \/ Pass1Step
    \/ Pass1Done
    \/ Pass2Step
    \/ AnalyzeReturn
    \/ MainLoopCollect
    \/ MainCrash
    \/ MainReport
    \/ MainExport

Spec == InitMain /\ [][Next]_vars

-----------------------------------------------------------------------------
(* A client of export_snapshot that exports to one path again and again. *)

\* the lists of Session Statistics the client exports
ExportLists ==
    {<<>>, <<Analyze("p1", <<3, 6, 10>>)>>,
     <<Analyze("p1", <<3, 6, 10>>), Analyze("p2", <<4, 7>>)>>}

\* a snapshot line an earlier run of the program left in the file
EarlierSnapshot == MakeSnapshot(<<>>, clock - 1, FALSE, None)

\* the target path holds no file, an empty file, or the line of an earlier run
InitExport ==
    /\ InitCaller
    /\ out \in {[exists |-> FALSE, lines |-> <<>>],
                [exists |-> TRUE, lines |-> <<>>],
                [exists |-> TRUE, lines |-> <<EarlierSnapshot>>]}
    /\ fs = [p \in Paths |-> NoFile]

\* export_snapshot(sts, path, append, grafema_mcp, note) with any arguments
ExportAnyCall ==
    /\ clock <= MaxExports
    /\ \E sts \in ExportLists : \E append \in BOOLEAN :
       \E grafema_mcp \in BOOLEAN : \E note \in {None, "", "n"} :
          ExportSnapshot(sts, append, grafema_mcp, note)
    /\ UNCHANGED <<fs, all_stats, totals>>
    /\ UNCHANGED mainVars
    /\ UNCHANGED analyzeVars

NextExport == ExportAnyCall

SpecExport == InitExport /\ [][NextExport]_vars

-----------------------------------------------------------------------------
(* What a file holds, read off the file itself. *)

Line(ls, l) == LinePool[ls[l]]

IsAssistantMessage(line) ==
    line.kind = "obj" /\ line.type = "assistant" /\ line.msg # <<>>

IsUserListMessage(line) ==
    /\ line.kind = "obj" /\ line.type = "user" /\ line.msg # <<>>
    /\ line.msg[1].content.kind = "list"

BlocksOf(line) == IF line.msg = <<>> THEN <<>> ELSE line.msg[1].content.blocks

\* positions <<line, block>> of the tool_use blocks of assistant records
Announcements(ls) ==
    UNION {{<<l, b>> : b \in {c \in 1..Len(BlocksOf(Line(ls, l))) :
                                 /\ BlocksOf(Line(ls, l))[c].dict
                                 /\ BlocksOf(Line(ls, l))[c].type = "tool_use"}} :
           l \in {m \in 1..Len(ls) : IsAssistantMessage(Line(ls, m))}}

\* positions <<line, block>> of the tool_result blocks of user records with list content
ResultBlocks(ls) ==
    UNION {{<<l, b>> : b \in {c \in 1..Len(BlocksOf(Line(ls, l))) :
                                 /\ BlocksOf(Line(ls, l))[c].dict
                                 /\ BlocksOf(Line(ls, l))[c].type = "tool_result"}} :
           l \in {m \in 1..Len(ls) : IsUserListMessage(Line(ls, m))}}

BlockAt(ls, pos) == BlocksOf(Line(ls, pos[1]))[pos[2]]

\* file order of two positions
Earlier(p, q) == p[1] < q[1] \/ (p[1] = q[1] /\ p[2] < q[2])

NameOf(block) == IF block.name = Absent THEN "unknown" ELSE block.name

\* the tool_use blocks of the file that announce the identifier id
AnnouncementsOf(ls, id) == {q \in Announcements(ls) : BlockAt(ls, q).id = id}

\* the tool name of the last announcement of id in file order
LastAnnouncedName(ls, id) ==
    LET qs == AnnouncementsOf(ls, id)
        last == CHOOSE q \in qs : \A r \in qs : r = q \/ Earlier(r, q)
    IN NameOf(BlockAt(ls, last))

\* the name a tool_result block belongs to when every identifier a tool_use block
\* carries counts as announced
NameByAnyId(ls, pos) ==
    LET id == BlockAt(ls, pos).id IN
    IF id # Absent /\ AnnouncementsOf(ls, id) # {}
    THEN LastAnnouncedName(ls, id) ELSE "unknown"

\* the same when only a non-empty identifier counts as announced
NameByNonEmptyId(ls, pos) ==
    LET id == BlockAt(ls, pos).id IN
    IF Truthy(id) /\ AnnouncementsOf(ls, id) # {}
    THEN LastAnnouncedName(ls, id) ELSE "unknown"

RECURSIVE SizeSum(_, _)
\* total content size of the tool_result blocks at the positions ps
SizeSum(ls, ps) ==
    IF ps = {} THEN 0
    ELSE LET pos == CHOOSE q \in ps : TRUE
         IN ContentSize(BlockAt(ls, pos).content) + SizeSum(ls, ps \ {pos})

ZeroSize == [count |-> 0, total_chars |-> 0]

ToolNamesOf(ls) ==
    {NameOf(BlockAt(ls, q)) : q \in Announcements(ls)} \cup {"unknown"}

NoNonObject(ls) == \A l \in 1..Len(ls) : Line(ls, l).kind # "nonobj"

Returned == apc = "returned"

-----------------------------------------------------------------------------
(* C1: tool_result attribution. *)

\* C1 as stated: when analyze_session returns, every tool_result block of a user
\* record whose tool_use_id some tool_use block of the file carries (earlier or
\* later in the file) is counted in tool_result_sizes under the announced name,
\* every other one under "unknown"; and a file of records does not make the
\* analysis fail.
C1_AttributionAnyId ==
    /\ NoNonObject(lines) => apc # "raised"
    /\ Returned =>
         \A n \in ToolNamesOf(lines) \cup DOMAIN stats.tool_result_sizes :
            LET ps == {pos \in ResultBlocks(lines) : NameByAnyId(lines, pos) = n}
            IN Get(stats.tool_result_sizes, n, ZeroSize) =
                  [count |-> Cardinality(ps), total_chars |-> SizeSum(lines, ps)]

\* C1 amended: the same for the tool_result blocks whose tool_use_id is non-empty;
\* a tool_result block with an empty or missing tool_use_id is counted under
\* "unknown" even when a tool_use block carries the same empty identifier.
C1_AttributionNonEmptyId ==
    /\ NoNonObject(lines) => apc # "raised"
    /\ Returned =>
         \A n \in ToolNamesOf(lines) \cup DOMAIN stats.tool_result_sizes :
            LET ps == {pos \in ResultBlocks(lines) : NameByNonEmptyId(lines, pos) = n}
            IN Get(stats.tool_result_sizes, n, ZeroSize) =
                  [count |-> Cardinality(ps), total_chars |-> SizeSum(lines, ps)]

\* analysis returned for a file in which a tool_result block precedes the
\* announcement of its identifier and another references an identifier announced
\* nowhere; both were counted
C1_Witness ==
    /\ Returned
    /\ \E pos \in ResultBlocks(lines) : \E q \in Announcements(lines) :
          /\ Earlier(pos, q)
          /\ Truthy(BlockAt(lines, pos).id)
          /\ BlockAt(lines, q).id = BlockAt(lines, pos).id
          /\ NameOf(BlockAt(lines, q)) \in DOMAIN stats.tool_result_sizes
    /\ \E pos \in ResultBlocks(lines) :
          /\ Truthy(BlockAt(lines, pos).id)
          /\ AnnouncementsOf(lines, BlockAt(lines, pos).id) = {}
    /\ "unknown" \in DOMAIN stats.tool_result_sizes

-----------------------------------------------------------------------------
(* C3: malformed lines. *)

\* the file without the lines that are no structured record
RECURSIVE WellFormedLines(_)
WellFormedLines(ls) ==
    IF ls = <<>> THEN <<>>
    ELSE IF LinePool[Head(ls)].kind = "obj"
         THEN <<Head(ls)>> \o WellFormedLines(Tail(ls))
         ELSE WellFormedLines(Tail(ls))

\* C3: analyze_session never raises on a malformed line (invalid JSON, or JSON
\* that is no object): it skips the line, and the statistics it returns are those
\* of the file with the malformed lines removed.
C3_MalformedLinesSkipped ==
    /\ apc # "raised"
    /\ Returned => stats = Analyze(ThePath, WellFormedLines(lines))

-----------------------------------------------------------------------------
(* C4: session token totals and per-model totals. *)

\* the lines the first loop has processed
Processed ==
    IF apc \in {"pass1", "raised"} THEN SubSeq(lines, 1, i - 1) ELSE lines

\* the total a model's entry holds for a token counter, 0 when it holds none
ModelTotal(entry, key) == IF key \in DOMAIN entry THEN entry[key] ELSE 0

ModelSum(key) ==
    SumOver([m \in DOMAIN stats.models |-> ModelTotal(stats.models[m], key)],
            DOMAIN stats.models)

UsageKey ==
    [input |-> "input_tokens", output |-> "output_tokens",
     cache_read |-> "cache_read_input_tokens",
     cache_creation |-> "cache_creation_input_tokens"]

\* the sum of one usage counter over the assistant records of ls
UsageSum(ls, key) ==
    LET as == {l \in 1..Len(ls) : IsAssistantMessage(Line(ls, l))}
    IN SumOver([l \in as |-> Get(Line(ls, l).msg[1].usage, UsageKey[key], 0)], as)

\* C4 as stated: at every point, each of the four session token totals equals the
\* sum of the corresponding per-model total over all models.
C4_AllFourPerModel ==
    \A key \in TokenKeys : stats.tokens[key] = ModelSum(key)

\* C4 amended: each of the four usage counters of every assistant record is added
\* to the session totals (a missing counter as 0); only input and output are also
\* added to the record's model, so the session input and output totals equal the
\* sums of the per-model input and output totals.
C4_InputOutputPerModel ==
    /\ \A key \in TokenKeys : stats.tokens[key] = UsageSum(Processed, key)
    /\ \A key \in {"input", "output"} : stats.tokens[key] = ModelSum(key)

\* analysis returned with two models and non-zero input and cache-read totals
C4_Witness ==
    /\ Returned
    /\ Cardinality(DOMAIN stats.models) >= 2
    /\ stats.tokens.input > 0
    /\ stats.tokens.cache_read > 0

-----------------------------------------------------------------------------
(* C5: aggregating a one-element list. *)

SameCounts(t, e) ==
    \A n \in DOMAIN t \cup DOMAIN e : Get(t, n, 0) = Get(e, n, 0)

SameSizes(t, e) ==
    \A n \in DOMAIN t \cup DOMAIN e : Get(t, n, ZeroSize) = Get(e, n, ZeroSize)

SameTokens(t, e) == \A key \in TokenKeys : t[key] = e[key]

\* C5 as stated: the totals print_summary and export_snapshot aggregate from a
\* one-element list equal the element: message count of every type (user,
\* assistant, system), token counters, tool-call counts, tool-result sizes.
C5_BothAggregationsAllTypes ==
    /\ (Len(all_stats) = 1 /\ totals # <<>>) =>
          /\ \A type \in MessageTypes :
                Get(totals.messages, type, 0) = all_stats[1].messages[type]
          /\ SameTokens(totals.tokens, all_stats[1].tokens)
          /\ SameCounts(totals.tool_calls, all_stats[1].tool_calls)
          /\ SameSizes(totals.tool_result_sizes, all_stats[1].tool_result_sizes)
    /\ (Len(all_stats) = 1 /\ snapshot # <<>>) =>
          /\ \A type \in MessageTypes :
                Get(snapshot.messages, type, 0) = all_stats[1].messages[type]
          /\ SameTokens(snapshot.tokens, all_stats[1].tokens)
          /\ SameCounts(snapshot.tool_calls, all_stats[1].tool_calls)
          /\ SameSizes(snapshot.tool_result_sizes, all_stats[1].tool_result_sizes)

\* C5 amended: print_summary's totals equal the element in every field; the
\* snapshot of export_snapshot equals it in the user and assistant message counts,
\* the token counters, the tool-call counts and the tool-result sizes, and carries
\* no system message count.
C5_SnapshotWithoutSystem ==
    /\ (Len(all_stats) = 1 /\ totals # <<>>) =>
          /\ \A type \in MessageTypes :
                Get(totals.messages, type, 0) = all_stats[1].messages[type]
          /\ SameTokens(totals.tokens, all_stats[1].tokens)
          /\ SameCounts(totals.tool_calls, all_stats[1].tool_calls)
          /\ SameSizes(totals.tool_result_sizes, all_stats[1].tool_result_sizes)
    /\ (Len(all_stats) = 1 /\ snapshot # <<>>) =>
          /\ DOMAIN snapshot.messages = {"user", "assistant"}
          /\ \A type \in {"user", "assistant"} :
                snapshot.messages[type] = all_stats[1].messages[type]
          /\ SameTokens(snapshot.tokens, all_stats[1].tokens)
          /\ SameCounts(snapshot.tool_calls, all_stats[1].tool_calls)
          /\ SameSizes(snapshot.tool_result_sizes, all_stats[1].tool_result_sizes)

\* both aggregations ran on a one-element list whose element counts a system
\* message, tokens, a tool call and a tool result
C5_Witness ==
    /\ Len(all_stats) = 1
    /\ totals # <<>>
    /\ snapshot # <<>>
    /\ all_stats[1].messages.system > 0
    /\ all_stats[1].tokens.input > 0
    /\ all_stats[1].tool_calls # EmptyMap
    /\ all_stats[1].tool_result_sizes # EmptyMap

-----------------------------------------------------------------------------
(* C7: non-negative counters. *)

NonNegativeCounts(d) == \A n \in DOMAIN d : d[n] >= 0

NonNegativeSizes(d) == \A n \in DOMAIN d : d[n].count >= 0 /\ d[n].total_chars >= 0

NonNegativeStats(st) ==
    /\ NonNegativeCounts(st.tokens)
    /\ NonNegativeCounts(st.messages)
    /\ NonNegativeCounts(st.tool_calls)
    /\ NonNegativeSizes(st.tool_result_sizes)
    /\ \A m \in DOMAIN st.models :
          st.models[m].input >= 0 /\ st.models[m].output >= 0 /\ st.models[m].calls >= 0

NonNegativeTotals(t) ==
    /\ NonNegativeCounts(t.tokens)
    /\ NonNegativeCounts(t.messages)
    /\ NonNegativeCounts(t.tool_calls)
    /\ NonNegativeSizes(t.tool_result_sizes)

AllNonNegative ==
    /\ NonNegativeStats(stats)
    /\ \A j \in 1..Len(all_stats) : NonNegativeStats(all_stats[j])
    /\ totals # <<>> => NonNegativeTotals(totals)
    /\ snapshot # <<>> => NonNegativeTotals(snapshot)

\* no record of the file carries a negative usage counter
NonNegativeUsage(ls) ==
    \A l \in 1..Len(ls) :
        Line(ls, l).msg # <<>> =>
            \A key \in DOMAIN Line(ls, l).msg[1].usage : Line(ls, l).msg[1].usage[key] >= 0

\* C7 as stated: for every file, at every point of analyze_session, in what it
\* returns and in every aggregated total, all counters are non-negative.
C7_NonNegativeAlways == AllNonNegative

\* C7 amended: the same for every file whose records carry no negative usage
\* counter (the counters of a record are added as they are, unvalidated).
C7_NonNegativeForNonNegativeUsage ==
    NonNegativeUsage(fs[ThePath].lines) => AllNonNegative

\* a file with token usage, tool calls and tool results was analysed and
\* aggregated
C7_Witness ==
    /\ NonNegativeUsage(fs[ThePath].lines)
    /\ Len(all_stats) = 1
    /\ totals # <<>>
    /\ snapshot # <<>>
    /\ all_stats[1].tokens.output > 0
    /\ all_stats[1].tool_calls # EmptyMap
    /\ \E n \in DOMAIN all_stats[1].tool_result_sizes :
          all_stats[1].tool_result_sizes[n].total_chars > 0

-----------------------------------------------------------------------------
(* C8: the session id. *)

\* the lines of ls that carry a sessionId
Carriers(ls) == {l \in 1..Len(ls) : Line(ls, l).kind = "obj" /\ Line(ls, l).sid # Absent}

\* the sessionId of the first record that carries one, None when none does
FirstSessionId(ls) ==
    IF Carriers(ls) = {} THEN None
    ELSE Line(ls, CHOOSE l \in Carriers(ls) : \A m \in Carriers(ls) : l <= m).sid

\* the sessionId of the first record that carries a non-empty one; when none
\* does, the empty one of the last carrier, or None
FirstNonEmptySessionId(ls) ==
    LET full == {l \in Carriers(ls) : Truthy(Line(ls, l).sid)} IN
    IF full # {} THEN Line(ls, CHOOSE l \in full : \A m \in full : l <= m).sid
    ELSE IF Carriers(ls) # {}
         THEN Line(ls, CHOOSE l \in Carriers(ls) : \A m \in Carriers(ls) : m <= l).sid
         ELSE None

\* C8 as stated: at every point the session id is the sessionId of the first
\* processed record that carries the field, whatever its value.
C8_FirstCarrierWins == stats.session_id = FirstSessionId(Processed)

\* C8 amended: the session id is the sessionId of the first record that carries a
\* non-empty one, and no later record changes it; an empty sessionId is adopted
\* only until a later record carries another.
C8_FirstNonEmptyWins == stats.session_id = FirstNonEmptySessionId(Processed)

\* analysis returned for a file whose first carrier has a non-empty sessionId and
\* a later record carries a different one
C8_Witness ==
    /\ Returned
    /\ \E l \in Carriers(lines) : \E m \in Carriers(lines) :
          /\ \A c \in Carriers(lines) : l <= c
          /\ l < m
          /\ Truthy(Line(lines, l).sid)
          /\ Truthy(Line(lines, m).sid)
          /\ Line(lines, m).sid # Line(lines, l).sid
          /\ stats.session_id = Line(lines, l).sid

-----------------------------------------------------------------------------
(* C10: several announcements of one identifier, announcements without one. *)

\* the index the first loop builds: the non-empty announced identifiers, each
\* with the name of its last announcement
IndexOf(ls) ==
    [id \in {BlockAt(ls, q).id : q \in {r \in Announcements(ls) : Truthy(BlockAt(ls, r).id)}}
        |-> LastAnnouncedName(ls, id)]

SizeCountSum(sizes) ==
    SumOver([n \in DOMAIN sizes |-> sizes[n].count], DOMAIN sizes)

\* C10: when analyze_session returns, every tool_use block (with or without an
\* identifier) has incremented tool_calls for its own name, the index maps each
\* non-empty announced identifier to the name of its last announcement and holds
\* nothing else, every tool_result block referencing an indexed identifier is
\* counted under that name wherever it is located, and the counts of
\* tool_result_sizes sum to the number of tool_result blocks of user records with
\* list content.
C10_LastAnnouncementWins ==
    Returned =>
       /\ \A n \in ToolNamesOf(lines) \cup DOMAIN stats.tool_calls :
             Get(stats.tool_calls, n, 0) =
                Cardinality({q \in Announcements(lines) : NameOf(BlockAt(lines, q)) = n})
       /\ tool_names = IndexOf(lines)
       /\ \A n \in DOMAIN stats.tool_result_sizes :
             stats.tool_result_sizes[n].count =
                Cardinality({pos \in ResultBlocks(lines) :
                                Get(IndexOf(lines), BlockAt(lines, pos).id, "unknown") = n})
       /\ SizeCountSum(stats.tool_result_sizes) = Cardinality(ResultBlocks(lines))

\* analysis returned for a file that announces one identifier under two names, a
\* tool_result block referencing it located before the last announcement, and a
\* tool_use block without identifier
C10_Witness ==
    /\ Returned
    /\ \E q \in Announcements(lines) : \E r \in Announcements(lines) :
       \E pos \in ResultBlocks(lines) :
          /\ Truthy(BlockAt(lines, q).id)
          /\ BlockAt(lines, q).id = BlockAt(lines, r).id
          /\ BlockAt(lines, pos).id = BlockAt(lines, q).id
          /\ NameOf(BlockAt(lines, q)) # NameOf(BlockAt(lines, r))
          /\ Earlier(q, pos) /\ Earlier(pos, r)
          /\ \A x \in AnnouncementsOf(lines, BlockAt(lines, r).id) : x = r \/ Earlier(x, r)
          /\ NameOf(BlockAt(lines, r)) \in DOMAIN stats.tool_result_sizes
          /\ NameOf(BlockAt(lines, q)) \notin DOMAIN stats.tool_result_sizes
    /\ \E q \in Announcements(lines) : ~Truthy(BlockAt(lines, q).id)

-----------------------------------------------------------------------------
(* C2: export_snapshot and the lines the file already holds. *)

\* C2 as stated: after every call of export_snapshot, whatever its arguments, the
\* file exists and holds the lines it held before the call, unchanged and in
\* order, followed by exactly one new line, the snapshot of the call.
C2_AlwaysAdditive ==
    call # <<>> =>
       /\ out.exists
       /\ out.lines = Append(call.before.lines, snapshot)

\* C2 amended: a call with append true (the default, and the only way main calls
\* it) keeps the lines the file held and adds the snapshot as one line at the end,
\* creating the file when absent; a call with append false replaces the content of
\* the file by the one new line. The lines of the file are always in export
\* order, the last one being the snapshot of the latest call.
C2_AdditiveWhenAppending ==
    call # <<>> =>
       /\ out.exists
       /\ out.lines = IF call.append THEN Append(call.before.lines, snapshot)
                      ELSE <<snapshot>>
       /\ \A j \in 1..Len(out.lines) : \A l \in 1..Len(out.lines) :
             j < l => out.lines[j].timestamp < out.lines[l].timestamp

\* a call with append true found a file holding two lines and left three
C2_Witness ==
    /\ call # <<>>
    /\ call.append
    /\ call.before.exists
    /\ Len(call.before.lines) = 2
    /\ Len(out.lines) = 3
    /\ SubSeq(out.lines, 1, 2) = call.before.lines
    /\ out.lines[3] = snapshot

-----------------------------------------------------------------------------
(* C6: the exit status of main. *)

\* the number of paths of ps at which a file exists
RECURSIVE CountExisting(_)
CountExisting(ps) ==
    IF ps = <<>> THEN 0
    ELSE (IF fs[Head(ps)].exists THEN 1 ELSE 0) + CountExisting(Tail(ps))

\* C6: main ends with a non-zero status, after the diagnostic, exactly when the
\* selection step resolved no file, and with status 0 otherwise; a path that does
\* not exist is passed over and adds no Session Statistics, so that the
\* sessions_count of the snapshot is the number of files analysed.
C6_ExitStatus ==
    mpc = "exited" =>
       /\ exit_status # <<0>> <=> files_to_analyze = <<>>
       /\ files_to_analyze = <<>> =>
             stdout # <<>> /\ stdout[Len(stdout)] = "No files to analyze"
       /\ files_to_analyze # <<>> =>
             /\ exit_status = <<0>>
             /\ Len(all_stats) = CountExisting(files_to_analyze)
             /\ snapshot # <<>> => snapshot.sessions_count = Len(all_stats)

-----------------------------------------------------------------------------
(* C9: the index and the statistics are scoped to one file. *)

\* C9: every analyze_session call of main starts from an empty index and fresh
\* statistics; the statistics main holds for a file are those of that file
\* analysed alone, and a tool_result block whose tool_use_id is announced only in
\* another file is counted under "unknown".
C9_FreshPerFile ==
    /\ (apc = "pass1" /\ i = 1) =>
          tool_names = EmptyMap /\ stats = InitStats(files_to_analyze[k])
    /\ \A j \in 1..Len(all_stats) :
          LET ls == fs[all_stats[j].file].lines IN
          /\ all_stats[j] = Analyze(all_stats[j].file, ls)
          /\ \A n \in DOMAIN all_stats[j].tool_result_sizes :
                all_stats[j].tool_result_sizes[n].count =
                   Cardinality({pos \in ResultBlocks(ls) :
                                   NameByNonEmptyId(ls, pos) = n})

\* main analysed a file that announces an identifier and then a file that only
\* references it; the second file's results are all under "unknown"
C9_Witness ==
    /\ Len(all_stats) = 2
    /\ LET first == fs[all_stats[1].file].lines
           second == fs[all_stats[2].file].lines
       IN /\ Announcements(second) = {}
          /\ \E pos \in ResultBlocks(second) : \E q \in Announcements(first) :
                /\ Truthy(BlockAt(second, pos).id)
                /\ BlockAt(first, q).id = BlockAt(second, pos).id
          /\ DOMAIN all_stats[2].tool_result_sizes = {"unknown"}

====
